---- MODULE Spec2Model ----
(***************************************************************************)
(* A state-machine model of WhaleWatch (src/whalewatch_core.py) and of the *)
(* SSE fan-out that serves it (src/app.py).                                *)
(*                                                                         *)
(* Threads: "reader" runs _run_ws and the WebSocket callbacks, "summary"   *)
(* runs _summary_loop, "price" runs _price_loop and "http" runs one Flask  *)
(* request at a time (config_endpoint).  Every `with lock:` block is       *)
(* modelled at statement granularity: one action to acquire, one action    *)
(* per statement of the body, one action to release.                       *)
(*                                                                         *)
(* Amounts are integers.  A BTC amount x is carried as the satoshi count   *)
(* x * 1e8, so `total_sat / 1e8 >= threshold_btc` (line 138) is the exact  *)
(* comparison total_sat >= threshold_btc * SAT_PER_BTC.                    *)
(*                                                                         *)
(* Specifications: Spec (aggregator, no client), SpecBus (fan-out alone),  *)
(* SpecLife (the three loops and stop), SpecIngest (reader and summary     *)
(* loop, with the history of messages and snapshots), SpecAll (aggregator  *)
(* and fan-out together), SpecCfg (two requests to /config) and SpecStart  *)
(* (the load of app.py).                                                   *)
(***************************************************************************)
EXTENDS Integers, Sequences, FiniteSets, TLC

\* ------------------------------------------------------------------ bounds
\* Inputs of one run of the aggregator: inbound WebSocket messages, wake-ups
\* of the summary loop and HTTP requests to /config, taken together.
MaxInputs == 4
\* Inputs of one run of the three background loops: connection attempts,
\* inbound messages, wake-ups of the summary loop and price fetches.
MaxLifeInputs == 3

\* Clients that open /stream in one run.
MaxClients == 2
\* Capacity of one client's queue: queue.Queue(maxsize=100), scaled down so
\* that a run fills a queue.
QueueCap == 2
\* Events handed to broadcast_event in one run of the fan-out alone.
MaxPub == 3

\* ------------------------------------------------------- program constants
\* total_btc = total_sat / 1e8
SAT_PER_BTC == 100000000

\* Optional values: None is <<>>, a value v is <<v>>.
None == <<>>
Some(v) == <<v>>
Val(o) == o[1]

Threads == {"reader", "summary", "http", "price"}
Nobody == "nobody"
QueueIds == 1..MaxClients

\* parse_config: SUMMARY_INTERVAL defaults to "60"
DefaultInterval == 60

\* Whale thresholds (BTC) and summary intervals (s) the operator may set, by
\* the environment (parse_config) or by POST /config.
Thresholds == {1, 2}
Intervals == {30, DefaultInterval}

\* ------------------------------------------------------------ transactions
\* The "value" member of one output of a "utx" record, as json.loads gives
\* it: an integer, a non-numeric string, null, or no member at all.
IntOut(n) == [k |-> "int", v |-> n]
StrOut == [k |-> "str", v |-> 0]
NullOut == [k |-> "null", v |-> 0]
NoValueOut == [k |-> "missing", v |-> 0]

\* Transaction records x of {"op": "utx", "x": ...}.
TxSet ==
    { [hash |-> "t0", out |-> <<>>],
      [hash |-> "t1", out |-> <<StrOut>>],
      [hash |-> "t2", out |-> <<StrOut, IntOut(SAT_PER_BTC)>>],
      [hash |-> "t4", out |-> <<IntOut(SAT_PER_BTC), IntOut(SAT_PER_BTC)>>] }

NoTx == [hash |-> "none", out |-> <<>>]

\* A record one of whose output values is a negative integer.
NegTx == [hash |-> "t5", out |-> <<IntOut(0 - SAT_PER_BTC), IntOut(2 * SAT_PER_BTC)>>]

\* int(out.get("value", 0)): raises TypeError/ValueError or returns an int.
IntRaises(o) == o.k \in {"str", "null"}
IntOf(o) == IF o.k = "int" THEN o.v ELSE 0

\* for out in outputs: try: total_sat += int(...) except: continue
RECURSIVE SumOutputs(_)
SumOutputs(outs) ==
    IF outs = <<>> THEN 0
    ELSE (IF IntRaises(Head(outs)) THEN 0 ELSE IntOf(Head(outs)))
         + SumOutputs(Tail(outs))

\* Mutant of IsWhale: the boundary excluded (`>` for `>=`).
IsWhaleStrict(total_sat, thr) == total_sat > thr * SAT_PER_BTC

\* if total_btc >= self.threshold_btc
IsWhale(total_sat, thr) == total_sat >= thr * SAT_PER_BTC

\* (self._price_usd or 0.0) * btc, in units of 1e-8 USD
UsdOf(price, sat) == IF price = None \/ Val(price) = 0 THEN 0 ELSE Val(price) * sat

\* _reset_stats
ResetStats == [count |-> 0, total |-> 0, whale |-> 0]

\* with self._lock: the lock is taken only when no thread holds it
CanAcquire(holder) == holder = Nobody

\* ------------------------------------------------------------------ events
NoEvent == [type |-> "none"]
WhaleEvent(tx, total_sat, price) ==
    [type |-> "whale", hash |-> tx.hash, value_sat |-> total_sat,
     value_usd |-> UsdOf(price, total_sat)]
SummaryEvent(count, total_sat, whale_count, price) ==
    [type |-> "summary", count |-> count, total_sat |-> total_sat,
     avg_num |-> total_sat, avg_den |-> count,
     total_usd |-> UsdOf(price, total_sat), whales |-> whale_count]
BlockEvent == [type |-> "block"]
ConfigEvent(t, i) == [type |-> "config", threshold |-> t, interval |-> i]

VARIABLES
    threshold_btc,      \* self.threshold_btc
    summary_interval,   \* self.summary_interval
    lock,               \* holder of self._lock
    stats,              \* _unconfirmed_count, _total_value_sat, _whale_count
    price_usd,          \* self._price_usd
    stop_event,         \* self._stop_event
    pc,                 \* position of each thread
    ret,                \* where a thread continues after broadcast_event
    tx,                 \* reader: the transaction being handled
    total_sat,          \* reader: local total_sat
    snap,               \* summary: local count, total_sat, whale_count
    slept,              \* summary: the interval time.sleep was called with
    args,               \* http: threshold_val, interval_val
    eff,                \* http: effective_threshold, effective_interval
    client_lock,        \* holder of client_lock
    client_queues,      \* the list client_queues (queue ids)
    queues,             \* contents of each client's queue
    pubEv,              \* broadcast_event's argument, per calling thread
    pubIdx,             \* broadcast_event's position in client_queues
    clients,            \* each /stream generator: "new", "live" or "gone"
    nIn,                \* how many inputs the run has taken so far
    nPub,               \* how many events were handed to broadcast_event
    nLife,              \* how many inputs the background loops have taken
    g_out,              \* history: what each put of a broadcast found and did
    g_conn,             \* history: connection attempts made by _run_ws
    g_win,              \* history: transactions handled since the last snapshot
    g_snap,             \* history: g_win as it was at the last snapshot
    g_cur,              \* history: the handler in progress
    g_cfg,              \* history: the configuration when update_config began
    audit,              \* history: whether this run keeps the records below
    g_order,            \* history: ranked events in the order they took client_lock
    g_last,             \* history: the event each client dequeued last
    g_msg,              \* history: the last inbound message and what it caused
    g_all,              \* history: transactions handled, snapshots taken, so far
    g_pubcfg,           \* history: payload of the last config event published
    entry,              \* how app.py is loaded: by a WSGI server or as a script
    boot,               \* position of the thread that loads app.py
    watcher,            \* app.py's global `watcher`
    started             \* WhaleWatch instances whose start() has been called

aggVars == <<threshold_btc, summary_interval, lock, stats, price_usd, stop_event>>
localVars == <<tx, total_sat, snap, slept, args, eff>>
busVars == <<client_lock, client_queues, queues, pubEv, pubIdx, clients>>
countVars == <<nIn, nPub, nLife>>
histVars == <<g_win, g_snap, g_cur, g_cfg, g_out, g_conn>>
auditVars == <<audit, g_order, g_last, g_msg, g_all, g_pubcfg>>
bootVars == <<entry, boot, watcher, started>>
vars == <<aggVars, pc, ret, localVars, busVars, countVars, histVars, auditVars, bootVars>>

\* ------------------------------------------------- history (specification)
\* What the specification says of a transaction, written without the
\* handler's operators: the outputs whose value parses, and their exact sum.
ParsedIdx(t) == {i \in DOMAIN t.out : t.out[i].k \in {"int", "missing"}}
RECURSIVE SumOver(_, _)
SumOver(outs, S) ==
    IF S = {} THEN 0
    ELSE LET i == CHOOSE j \in S : TRUE
         IN (IF outs[i].k = "int" THEN outs[i].v ELSE 0) + SumOver(outs, S \ {i})
ExactSum(t) == SumOver(t.out, ParsedIdx(t))
MeetsThreshold(sat, thr) == ~(sat < thr * SAT_PER_BTC)

\* g_win: of the transactions handled since the last snapshot, how many (n),
\* how many with a parseable output value (par), the exact sum of their
\* parsed values (sum), how many met the threshold they were handled under
\* (whales), how many whale callbacks their handlers completed (wev).
\* g_cur: the threshold and whale count the handler in progress found when
\* it took the lock, and the whale callbacks it has completed.
EmptyWin == [n |-> 0, par |-> 0, sum |-> 0, whales |-> 0, wev |-> 0]
NoCur == [thr0 |-> 0, w0 |-> 0, ev |-> 0]
\* g_cfg: threshold and interval as update_config found them.
NoCfg == [thr |-> 0, itv |-> 0]
\* g_msg: the kind of the last inbound message ("bad" for a frame json.loads
\* rejects, else its op), the transaction handlers begun for it (txs) and the
\* callbacks completed for it, by event type.
\* no is the rank of the message among the inbound messages.
NoMsg == [no |-> 0, kind |-> "none", txs |-> 0, blocks |-> 0, whales |-> 0]
KindOf(m) == IF m.ok THEN m.op ELSE "bad"
\* g_all: count, exact value and whales of the transactions handled to the end
\* so far (done) and of the snapshots taken so far (snaps), and the number of
\* snapshots taken (cycles).
NoTotals == [n |-> 0, sum |-> 0, whales |-> 0]
NoAll == [done |-> NoTotals, snaps |-> NoTotals, cycles |-> 0]
Tally(tot, n, sum, w) ==
    [n |-> tot.n + n, sum |-> tot.sum + sum, whales |-> tot.whales + w]

\* ------------------------------------------------------------------- Init
\* WhaleWatch.__init__ as start_watcher calls it: threshold and interval come
\* from the environment (parse_config), the callback is broadcast_event.
InitCommon ==
    /\ threshold_btc \in Thresholds
    /\ summary_interval = DefaultInterval
    /\ lock = Nobody
    /\ stats = ResetStats
    /\ price_usd = None
    /\ stop_event = FALSE
    /\ ret = [t \in Threads |-> "none"]
    /\ tx = NoTx
    /\ total_sat = 0
    /\ snap = ResetStats
    /\ slept = None
    /\ args = <<None, None>>
    /\ eff = <<None, None>>
    /\ client_lock = Nobody
    /\ client_queues = <<>>
    /\ queues = [q \in QueueIds |-> <<>>]
    /\ pubEv = [t \in Threads |-> NoEvent]
    /\ pubIdx = [t \in Threads |-> 0]
    /\ clients = [q \in QueueIds |-> "new"]
    /\ nIn = 0
    /\ nPub = 0
    /\ nLife = 0
    /\ g_out = [t \in Threads |-> <<>>]
    /\ g_conn = 0
    /\ g_win = EmptyWin
    /\ g_snap = EmptyWin
    /\ g_cur = NoCur
    /\ g_cfg = NoCfg
    /\ g_order = <<>>
    /\ g_last = [q \in QueueIds |-> 0]
    /\ g_msg = NoMsg
    /\ g_all = NoAll
    /\ g_pubcfg = None

\* app.py has been loaded by a WSGI server: initialize_watcher has made the
\* one WhaleWatch instance and started it.
Booted ==
    /\ entry = "wsgi"
    /\ boot = "serving"
    /\ watcher = Some(1)
    /\ started = 1

\* The aggregator with its three callers running: the reader is connected
\* and waits for a message, the summary loop is at its `while`, no request
\* is being served.
Init ==
    /\ InitCommon
    /\ Booted
    /\ audit = FALSE
    /\ pc = [t \in Threads |->
               CASE t = "reader" -> "recv"
                 [] t = "summary" -> "loop"
                 [] t = "http" -> "idle"
                 [] OTHER -> "off"]

\* ------------------------------------------------------- inbound messages
Messages ==
    {[ok |-> FALSE, op |-> "none", x |-> NoTx]}
    \cup {[ok |-> TRUE, op |-> "utx", x |-> t] : t \in TxSet}
    \cup {[ok |-> TRUE, op |-> o, x |-> NoTx] : o \in {"block", "pong"}}

\* Mutant of ReaderOnMessageFrom: `else` for `elif op == "block"`, so that
\* every decoded message that is not a "utx" goes to the block handler.
ReaderOnMessageElseBlock(feed) ==
    /\ pc["reader"] = "recv"
    /\ nIn < MaxInputs
    /\ \E m \in feed :
        /\ nIn' = nIn + 1
        /\ IF m.ok /\ m.op = "utx"
           THEN /\ tx' = m.x
                /\ total_sat' = SumOutputs(m.x.out)
                /\ pc' = [pc EXCEPT !["reader"] = "lock"]
                /\ UNCHANGED <<ret, pubEv>>
           ELSE IF m.ok
           THEN /\ pubEv' = [pubEv EXCEPT !["reader"] = BlockEvent]
                /\ pc' = [pc EXCEPT !["reader"] = "cb"]
                /\ ret' = [ret EXCEPT !["reader"] = "recv"]
                /\ UNCHANGED <<tx, total_sat>>
           ELSE UNCHANGED <<tx, total_sat, pc, ret, pubEv>>
        /\ g_msg' = IF audit
                     THEN [NoMsg EXCEPT !.no = g_msg.no + 1, !.kind = KindOf(m)]
                     ELSE g_msg
    /\ UNCHANGED <<aggVars, snap, slept, args, eff, client_lock,
                   client_queues, queues, pubIdx, clients, nPub, nLife, histVars,
                   audit, g_order, g_last, g_all, g_pubcfg, bootVars>>

\* Mutant of ReaderOnMessageFrom: the block handler counts the block in the
\* window.
ReaderOnMessageBlockCounted(feed) ==
    /\ pc["reader"] = "recv"
    /\ nIn < MaxInputs
    /\ \E m \in feed :
        /\ nIn' = nIn + 1
        /\ IF m.ok /\ m.op = "utx"
           THEN /\ tx' = m.x
                /\ total_sat' = SumOutputs(m.x.out)
                /\ pc' = [pc EXCEPT !["reader"] = "lock"]
                /\ UNCHANGED <<ret, pubEv, stats>>
           ELSE IF m.ok /\ m.op = "block"
           THEN /\ pubEv' = [pubEv EXCEPT !["reader"] = BlockEvent]
                /\ pc' = [pc EXCEPT !["reader"] = "cb"]
                /\ ret' = [ret EXCEPT !["reader"] = "recv"]
                /\ stats' = [stats EXCEPT !.count = @ + 1]
                /\ UNCHANGED <<tx, total_sat>>
           ELSE UNCHANGED <<tx, total_sat, pc, ret, pubEv, stats>>
        /\ g_msg' = IF audit
                     THEN [NoMsg EXCEPT !.no = g_msg.no + 1, !.kind = KindOf(m)]
                     ELSE g_msg
    /\ UNCHANGED <<threshold_btc, summary_interval, lock, price_usd, stop_event, snap, slept, args, eff, client_lock,
                   client_queues, queues, pubIdx, clients, nPub, nLife, histVars,
                   audit, g_order, g_last, g_all, g_pubcfg, bootVars>>

\* _on_message, and the part of _handle_unconfirmed_tx / _handle_new_block
\* that runs before any shared state is touched, for a message of the feed.
ReaderOnMessageFrom(feed) ==
    /\ pc["reader"] = "recv"
    /\ nIn < MaxInputs
    /\ \E m \in feed :
        /\ nIn' = nIn + 1
        /\ IF m.ok /\ m.op = "utx"
           THEN /\ tx' = m.x
                /\ total_sat' = SumOutputs(m.x.out)
                /\ pc' = [pc EXCEPT !["reader"] = "lock"]
                /\ UNCHANGED <<ret, pubEv>>
           ELSE IF m.ok /\ m.op = "block"
           THEN /\ pubEv' = [pubEv EXCEPT !["reader"] = BlockEvent]
                /\ pc' = [pc EXCEPT !["reader"] = "cb"]
                /\ ret' = [ret EXCEPT !["reader"] = "recv"]
                /\ UNCHANGED <<tx, total_sat>>
           ELSE UNCHANGED <<tx, total_sat, pc, ret, pubEv>>
        /\ g_msg' = IF audit
                     THEN [NoMsg EXCEPT !.no = g_msg.no + 1, !.kind = KindOf(m)]
                     ELSE g_msg
    /\ UNCHANGED <<aggVars, snap, slept, args, eff, client_lock,
                   client_queues, queues, pubIdx, clients, nPub, nLife, histVars,
                   audit, g_order, g_last, g_all, g_pubcfg, bootVars>>

\* A message of any kind arrives.
ReaderOnMessage == ReaderOnMessageFrom(Messages)

\* with self._lock:                                            (line 135)
ReaderAcquire ==
    /\ pc["reader"] = "lock"
    /\ CanAcquire(lock)
    /\ lock' = "reader"
    /\ pc' = [pc EXCEPT !["reader"] = "cnt"]
    /\ g_cur' = [thr0 |-> threshold_btc, w0 |-> stats.whale, ev |-> 0]
    /\ UNCHANGED <<threshold_btc, summary_interval, stats, price_usd, stop_event,
                   ret, localVars, busVars, countVars, g_win, g_snap, g_cfg, g_out, g_conn, auditVars, bootVars>>

\* Mutant of ReaderIncCount: the lock covers the count alone and is released
\* before the total and the classification.
ReaderIncCountThenUnlock ==
    /\ pc["reader"] = "cnt"
    /\ stats' = [stats EXCEPT !.count = @ + 1]
    /\ lock' = Nobody
    /\ pc' = [pc EXCEPT !["reader"] = "tot"]
    /\ UNCHANGED <<threshold_btc, summary_interval, price_usd, stop_event,
                   ret, localVars, busVars, countVars, histVars, auditVars, bootVars>>

\* self._unconfirmed_count += 1                                (line 136)
ReaderIncCount ==
    /\ pc["reader"] = "cnt"
    /\ stats' = [stats EXCEPT !.count = @ + 1]
    /\ pc' = [pc EXCEPT !["reader"] = "tot"]
    /\ UNCHANGED <<threshold_btc, summary_interval, lock, price_usd, stop_event,
                   ret, localVars, busVars, countVars, histVars, auditVars, bootVars>>

\* self._total_value_sat += total_sat                          (line 137)
ReaderAddTotal ==
    /\ pc["reader"] = "tot"
    /\ stats' = [stats EXCEPT !.total = @ + total_sat]
    /\ pc' = [pc EXCEPT !["reader"] = "cmp"]
    /\ UNCHANGED <<threshold_btc, summary_interval, lock, price_usd, stop_event,
                   ret, localVars, busVars, countVars, histVars, auditVars, bootVars>>

\* if total_btc >= self.threshold_btc: self._whale_count += 1, and the
\* callback is called with the whale event               (lines 138-150)
ReaderClassify ==
    /\ pc["reader"] = "cmp"
    /\ IF IsWhale(total_sat, threshold_btc)
       THEN /\ stats' = [stats EXCEPT !.whale = @ + 1]
            /\ pubEv' = [pubEv EXCEPT !["reader"] = WhaleEvent(tx, total_sat, price_usd)]
            /\ pc' = [pc EXCEPT !["reader"] = "cb"]
            /\ ret' = [ret EXCEPT !["reader"] = "unlock"]
       ELSE /\ pc' = [pc EXCEPT !["reader"] = "unlock"]
            /\ UNCHANGED <<stats, pubEv, ret>>
    /\ UNCHANGED <<threshold_btc, summary_interval, lock, price_usd, stop_event,
                   localVars, client_lock, client_queues, queues, pubIdx, clients,
                   countVars, histVars, auditVars, bootVars>>

\* the end of the `with self._lock` block                      (line 152)
ReaderRelease ==
    /\ pc["reader"] = "unlock"
    /\ lock' = Nobody
    /\ pc' = [pc EXCEPT !["reader"] = "recv"]
    /\ g_win' = [n |-> g_win.n + 1,
                 par |-> g_win.par + (IF ParsedIdx(tx) # {} THEN 1 ELSE 0),
                 sum |-> g_win.sum + ExactSum(tx),
                 whales |-> g_win.whales
                            + (IF MeetsThreshold(ExactSum(tx), g_cur.thr0) THEN 1 ELSE 0),
                 wev |-> g_win.wev + g_cur.ev]
    /\ g_cur' = NoCur
    /\ tx' = NoTx
    /\ total_sat' = 0
    /\ g_msg' = IF audit THEN [g_msg EXCEPT !.txs = @ + 1] ELSE g_msg
    /\ g_all' = IF audit
                 THEN [g_all EXCEPT !.done =
                         Tally(@, 1, ExactSum(tx),
                               IF MeetsThreshold(ExactSum(tx), g_cur.thr0) THEN 1 ELSE 0)]
                 ELSE g_all
    /\ UNCHANGED <<threshold_btc, summary_interval, stats, price_usd, stop_event,
                   ret, snap, slept, args, eff, busVars, countVars, g_snap, g_cfg,
                   g_out, g_conn, audit, g_order, g_last, g_pubcfg, bootVars>>

\* --------------------------------------------------------- broadcast_event
\* An event that carries the rank of its call (those of CallbackCall).
Ranked(ev) == "id" \in DOMAIN ev

\* with client_lock:                                       (app.py line 36)
BcastAcquire(t) ==
    /\ pc[t] = "cb"
    /\ CanAcquire(client_lock)
    /\ client_lock' = t
    /\ pubIdx' = [pubIdx EXCEPT ![t] = 1]
    /\ pc' = [pc EXCEPT ![t] = "put"]
    /\ g_order' = IF Ranked(pubEv[t])
                   THEN Append(g_order, [id |-> pubEv[t].id, by |-> t])
                   ELSE g_order
    /\ UNCHANGED <<aggVars, ret, localVars, client_queues, queues, pubEv, clients,
                   countVars, histVars, audit, g_last, g_msg, g_all, g_pubcfg,
                   bootVars>>

\* Mutant of PutOrDrop: the event is put at the head of the queue.
PutOrDropAtHead(content, ev) ==
    IF Len(content) < QueueCap THEN <<ev>> \o content ELSE content

\* q.put((event_type, data), timeout=0.1) on a queue of the given contents:
\* the new contents, which are the old ones when queue.Full is raised.
PutOrDrop(content, ev) ==
    IF Len(content) < QueueCap THEN Append(content, ev) ELSE content

\* Mutant of BcastPut: queue.Full is caught around the whole loop, so the
\* first full queue ends the broadcast.
BcastPutStopsAtFull(t) ==
    /\ pc[t] = "put"
    /\ pubIdx[t] <= Len(client_queues)
    /\ LET q == client_queues[pubIdx[t]]
           full == ~(Len(queues[q]) < QueueCap)
       IN /\ queues' = [queues EXCEPT ![q] = PutOrDrop(@, pubEv[t])]
          /\ pubIdx' = [pubIdx EXCEPT ![t] =
                          IF full THEN Len(client_queues) + 1 ELSE @ + 1]
          /\ g_out' = [g_out EXCEPT ![t] = Append(@,
                          [q |-> q, full |-> full,
                           got |-> queues'[q] = queues[q] \o <<pubEv[t]>>])]
    /\ UNCHANGED <<aggVars, pc, ret, localVars, client_lock, client_queues, pubEv,
                   clients, countVars, g_win, g_snap, g_cur, g_cfg, g_conn, auditVars, bootVars>>

\* one iteration of `for q in client_queues`            (app.py lines 37-42)
BcastPut(t) ==
    /\ pc[t] = "put"
    /\ pubIdx[t] <= Len(client_queues)
    /\ LET q == client_queues[pubIdx[t]]
       IN queues' = [queues EXCEPT ![q] = PutOrDrop(@, pubEv[t])]
    /\ pubIdx' = [pubIdx EXCEPT ![t] = @ + 1]
    /\ LET q == client_queues[pubIdx[t]]
       IN g_out' = [g_out EXCEPT ![t] = Append(@,
                      [q |-> q,
                       full |-> ~(Len(queues[q]) < QueueCap),
                       got |-> queues'[q] = queues[q] \o <<pubEv[t]>>])]
    /\ UNCHANGED <<aggVars, pc, ret, localVars, client_lock, client_queues, pubEv,
                   clients, countVars, g_win, g_snap, g_cur, g_cfg, g_conn, auditVars, bootVars>>

\* Mutant of BcastRelease: broadcast_event returns with client_lock held.
BcastReleaseKeepsLock(t) ==
    /\ pc[t] = "put"
    /\ pubIdx[t] > Len(client_queues)
    /\ pc' = [pc EXCEPT ![t] = ret[t]]
    /\ pubEv' = [pubEv EXCEPT ![t] = NoEvent]
    /\ pubIdx' = [pubIdx EXCEPT ![t] = 0]
    /\ UNCHANGED <<aggVars, ret, localVars, client_lock, client_queues, queues,
                   clients, countVars, histVars, auditVars, bootVars>>

\* the loop is over: client_lock is released and broadcast_event returns
BcastRelease(t) ==
    /\ pc[t] = "put"
    /\ pubIdx[t] > Len(client_queues)
    /\ client_lock' = Nobody
    /\ pc' = [pc EXCEPT ![t] = ret[t]]
    /\ pubEv' = [pubEv EXCEPT ![t] = NoEvent]
    /\ pubIdx' = [pubIdx EXCEPT ![t] = 0]
    /\ g_cur' = IF t = "reader" /\ pubEv[t].type = "whale"
                 THEN [g_cur EXCEPT !.ev = @ + 1] ELSE g_cur
    /\ g_out' = [g_out EXCEPT ![t] = <<>>]
    /\ g_msg' = IF audit /\ t = "reader" /\ pubEv[t].type = "block"
                 THEN [g_msg EXCEPT !.blocks = @ + 1]
                 ELSE IF audit /\ t = "reader" /\ pubEv[t].type = "whale"
                 THEN [g_msg EXCEPT !.whales = @ + 1]
                 ELSE g_msg
    /\ g_pubcfg' = IF audit /\ pubEv[t].type = "config"
                    THEN Some(<<pubEv[t].threshold, pubEv[t].interval>>)
                    ELSE g_pubcfg
    /\ UNCHANGED <<aggVars, ret, localVars, client_queues, queues, clients,
                   countVars, g_win, g_snap, g_cfg, g_conn, audit, g_order, g_last,
                   g_all, bootVars>>

\* ------------------------------------------------------------ _summary_loop
\* while not self._stop_event.is_set():                        (line 172)
SumCheckStop ==
    /\ pc["summary"] = "loop"
    /\ pc' = [pc EXCEPT !["summary"] = IF stop_event THEN "exited" ELSE "sleep"]
    /\ snap' = ResetStats
    /\ slept' = None
    /\ g_snap' = EmptyWin
    /\ UNCHANGED <<aggVars, ret, tx, total_sat, args, eff, busVars, countVars,
                   g_win, g_cur, g_cfg, g_out, g_conn, auditVars, bootVars>>

\* time.sleep(self.summary_interval): the interval is read here, with no
\* lock held, and the thread wakes up after it                 (line 173)
\* (a sleep always ends; the bound on the run's inputs stops counting once
\* the stop signal is set, after which the loop has one cycle left)
SumSleep ==
    /\ pc["summary"] = "sleep"
    /\ nIn < MaxInputs \/ stop_event
    /\ nIn' = IF nIn < MaxInputs THEN nIn + 1 ELSE nIn
    /\ slept' = Some(summary_interval)
    /\ pc' = [pc EXCEPT !["summary"] = "lock"]
    /\ UNCHANGED <<aggVars, ret, tx, total_sat, snap, args, eff,
                   busVars, nPub, nLife, histVars, auditVars, bootVars>>

\* with self._lock:                                            (line 174)
SumAcquire ==
    /\ pc["summary"] = "lock"
    /\ CanAcquire(lock)
    /\ lock' = "summary"
    /\ pc' = [pc EXCEPT !["summary"] = "snap"]
    /\ UNCHANGED <<threshold_btc, summary_interval, stats, price_usd, stop_event,
                   ret, localVars, busVars, countVars, histVars, auditVars, bootVars>>

\* Mutant of SumSnapshot: the reset forgets _total_value_sat.
SumSnapshotKeepsTotal ==
    /\ pc["summary"] = "snap"
    /\ snap' = stats
    /\ stats' = [ResetStats EXCEPT !.total = stats.total]
    /\ g_snap' = g_win
    /\ g_win' = EmptyWin
    /\ g_all' = IF audit
                 THEN [g_all EXCEPT
                         !.snaps = Tally(@, snap'.count, snap'.total, snap'.whale),
                         !.cycles = @ + 1]
                 ELSE g_all
    /\ pc' = [pc EXCEPT !["summary"] = "unlock"]
    /\ UNCHANGED <<threshold_btc, summary_interval, lock, price_usd, stop_event,
                   ret, tx, total_sat, slept, args, eff, busVars,
                   countVars, g_cur, g_cfg, g_out, g_conn, audit, g_order, g_last,
                   g_msg, g_pubcfg, bootVars>>

\* Mutant of SumSnapshot: the window is read and not reset.
SumSnapshotNoReset ==
    /\ pc["summary"] = "snap"
    /\ snap' = stats
    /\ stats' = stats
    /\ g_snap' = g_win
    /\ g_win' = EmptyWin
    /\ g_all' = IF audit
                 THEN [g_all EXCEPT
                         !.snaps = Tally(@, snap'.count, snap'.total, snap'.whale),
                         !.cycles = @ + 1]
                 ELSE g_all
    /\ pc' = [pc EXCEPT !["summary"] = "unlock"]
    /\ UNCHANGED <<threshold_btc, summary_interval, lock, price_usd, stop_event,
                   ret, tx, total_sat, slept, args, eff, busVars,
                   countVars, g_cur, g_cfg, g_out, g_conn, audit, g_order, g_last,
                   g_msg, g_pubcfg, bootVars>>

\* count, total_sat, whale_count = ...; self._reset_stats() (lines 175-178)
SumSnapshot ==
    /\ pc["summary"] = "snap"
    /\ snap' = stats
    /\ stats' = ResetStats
    /\ g_snap' = g_win
    /\ g_win' = EmptyWin
    /\ g_all' = IF audit
                 THEN [g_all EXCEPT
                         !.snaps = Tally(@, snap'.count, snap'.total, snap'.whale),
                         !.cycles = @ + 1]
                 ELSE g_all
    /\ pc' = [pc EXCEPT !["summary"] = "unlock"]
    /\ UNCHANGED <<threshold_btc, summary_interval, lock, price_usd, stop_event,
                   ret, tx, total_sat, slept, args, eff, busVars,
                   countVars, g_cur, g_cfg, g_out, g_conn, audit, g_order, g_last,
                   g_msg, g_pubcfg, bootVars>>

\* the end of the `with self._lock` block
SumRelease ==
    /\ pc["summary"] = "unlock"
    /\ lock' = Nobody
    /\ pc' = [pc EXCEPT !["summary"] = "chk"]
    /\ UNCHANGED <<threshold_btc, summary_interval, stats, price_usd, stop_event,
                   ret, localVars, busVars, countVars, histVars, auditVars, bootVars>>

\* Mutant of SkipSummary: the empty window is not skipped.
SkipSummaryNever(count) == FALSE

\* if count == 0: continue                                     (line 179)
SkipSummary(count) == count = 0

\* lines 179-195: nothing for an empty window, else the summary event is
\* built from the snapshot and the callback is called with it
SumEmit ==
    /\ pc["summary"] = "chk"
    /\ IF SkipSummary(snap.count)
       THEN /\ pc' = [pc EXCEPT !["summary"] = "loop"]
            /\ UNCHANGED <<pubEv, ret>>
       ELSE /\ pubEv' = [pubEv EXCEPT !["summary"] =
                           SummaryEvent(snap.count, snap.total, snap.whale, price_usd)]
            /\ pc' = [pc EXCEPT !["summary"] = "cb"]
            /\ ret' = [ret EXCEPT !["summary"] = "loop"]
    /\ UNCHANGED <<aggVars, localVars, client_lock, client_queues, queues, pubIdx,
                   clients, countVars, histVars, auditVars, bootVars>>

\* ------------------------------------------------------------ /config
\* A form or JSON member of the request: absent, not a number, or a number.
Absent == [k |-> "absent", v |-> 0]
NotANumber == [k |-> "bad", v |-> 0]
Number(n) == [k |-> "num", v |-> n]
RawParams(S) == {Absent, NotANumber} \cup {Number(n) : n \in S}

\* lines 112-123: None stays unless the member is there and float()/int()
\* accepts it (ValueError is passed over)
ToNumber(raw) == IF raw.k = "num" THEN Some(raw.v) ELSE None

\* Mutant of ApplyParam: a parameter left out is written as 0.
ApplyParamAlways(cur, arg) == IF arg # None THEN Val(arg) ELSE 0

\* update_config: `if x is not None: self.x = x`       (core lines 239-242)
ApplyParam(cur, arg) == IF arg # None THEN Val(arg) ELSE cur

\* POST /config up to the call of update_config        (app.py lines 104-125)
HttpPost ==
    /\ pc["http"] = "idle"
    /\ nIn < MaxInputs
    /\ nIn' = nIn + 1
    /\ \E rt \in RawParams(Thresholds), ri \in RawParams(Intervals) :
        args' = <<ToNumber(rt), ToNumber(ri)>>
    /\ eff' = <<None, None>>
    /\ pc' = [pc EXCEPT !["http"] = "lock"]
    /\ UNCHANGED <<aggVars, ret, tx, total_sat, snap, slept, busVars,
                   nPub, nLife, histVars, auditVars, bootVars>>

\* update_config: with self._lock:                        (core line 238)
CfgAcquire ==
    /\ pc["http"] = "lock"
    /\ CanAcquire(lock)
    /\ lock' = "http"
    /\ g_cfg' = [thr |-> threshold_btc, itv |-> summary_interval]
    /\ pc' = [pc EXCEPT !["http"] = "wt"]
    /\ UNCHANGED <<threshold_btc, summary_interval, stats, price_usd, stop_event,
                   ret, localVars, busVars, countVars, g_win, g_snap, g_cur, g_out, g_conn, auditVars, bootVars>>

\* Mutant of CfgWriteThreshold: a new threshold restarts the window.
CfgWriteThresholdResets ==
    /\ pc["http"] = "wt"
    /\ threshold_btc' = ApplyParam(threshold_btc, args[1])
    /\ stats' = IF args[1] # None THEN ResetStats ELSE stats
    /\ pc' = [pc EXCEPT !["http"] = "wi"]
    /\ UNCHANGED <<summary_interval, lock, price_usd, stop_event,
                   ret, localVars, busVars, countVars, histVars, auditVars, bootVars>>

\* if threshold_btc is not None: self.threshold_btc = ... (core lines 239-240)
CfgWriteThreshold ==
    /\ pc["http"] = "wt"
    /\ threshold_btc' = ApplyParam(threshold_btc, args[1])
    /\ pc' = [pc EXCEPT !["http"] = "wi"]
    /\ UNCHANGED <<summary_interval, lock, stats, price_usd, stop_event,
                   ret, localVars, busVars, countVars, histVars, auditVars, bootVars>>

\* if summary_interval is not None: self.summary_interval = ... (241-242)
CfgWriteInterval ==
    /\ pc["http"] = "wi"
    /\ summary_interval' = ApplyParam(summary_interval, args[2])
    /\ pc' = [pc EXCEPT !["http"] = "unlock"]
    /\ UNCHANGED <<threshold_btc, lock, stats, price_usd, stop_event,
                   ret, localVars, busVars, countVars, histVars, auditVars, bootVars>>

\* the end of update_config's `with self._lock` block
CfgRelease ==
    /\ pc["http"] = "unlock"
    /\ lock' = Nobody
    /\ pc' = [pc EXCEPT !["http"] = "rd1"]
    /\ UNCHANGED <<threshold_btc, summary_interval, stats, price_usd, stop_event,
                   ret, localVars, busVars, countVars, histVars, auditVars, bootVars>>

\* effective_threshold = watcher.threshold_btc          (app.py line 127)
CfgReadThreshold ==
    /\ pc["http"] = "rd1"
    /\ eff' = <<Some(threshold_btc), eff[2]>>
    /\ pc' = [pc EXCEPT !["http"] = "rd2"]
    /\ UNCHANGED <<aggVars, ret, tx, total_sat, snap, slept, args,
                   busVars, countVars, histVars, auditVars, bootVars>>

\* effective_interval = watcher.summary_interval, then the config event is
\* broadcast                                        (app.py lines 128-136)
CfgReadInterval ==
    /\ pc["http"] = "rd2"
    /\ eff' = <<eff[1], Some(summary_interval)>>
    /\ pubEv' = [pubEv EXCEPT !["http"] = ConfigEvent(Val(eff[1]), summary_interval)]
    /\ pc' = [pc EXCEPT !["http"] = "cb"]
    /\ ret' = [ret EXCEPT !["http"] = "resp"]
    /\ UNCHANGED <<aggVars, tx, total_sat, snap, slept, args, client_lock,
                   client_queues, queues, pubIdx, clients, countVars, histVars, auditVars, bootVars>>

\* GET /config: "threshold": watcher.threshold_btc      (app.py line 144)
HttpGet ==
    /\ pc["http"] = "idle"
    /\ nIn < MaxInputs
    /\ nIn' = nIn + 1
    /\ args' = <<None, None>>
    /\ eff' = <<Some(threshold_btc), None>>
    /\ pc' = [pc EXCEPT !["http"] = "get2"]
    /\ UNCHANGED <<aggVars, ret, tx, total_sat, snap, slept, busVars,
                   nPub, nLife, histVars, auditVars, bootVars>>

\* GET /config: "interval": watcher.summary_interval    (app.py line 145)
HttpGetInterval ==
    /\ pc["http"] = "get2"
    /\ eff' = <<eff[1], Some(summary_interval)>>
    /\ pc' = [pc EXCEPT !["http"] = "resp"]
    /\ UNCHANGED <<aggVars, ret, tx, total_sat, snap, slept, args,
                   busVars, countVars, histVars, auditVars, bootVars>>

\* return {"threshold": ..., "interval": ...}: the response carries eff, and
\* the request's locals are gone                   (app.py lines 137-146)
HttpRespond ==
    /\ pc["http"] = "resp"
    /\ pc' = [pc EXCEPT !["http"] = "idle"]
    /\ args' = <<None, None>>
    /\ eff' = <<None, None>>
    /\ g_cfg' = NoCfg
    /\ UNCHANGED <<aggVars, ret, tx, total_sat, snap, slept, busVars, countVars,
                   g_win, g_snap, g_cur, g_out, g_conn, auditVars, bootVars>>

\* ------------------------------------------------- the aggregator at work
\* The reader, the summary loop and the /config endpoint, with no client
\* connected to /stream (client_queues stays empty, so broadcast_event's
\* loop body never runs).
Next ==
    \/ ReaderOnMessage
    \/ ReaderAcquire
    \/ ReaderIncCount
    \/ ReaderAddTotal
    \/ ReaderClassify
    \/ ReaderRelease
    \/ SumCheckStop
    \/ SumSleep
    \/ SumAcquire
    \/ SumSnapshot
    \/ SumRelease
    \/ SumEmit
    \/ HttpPost
    \/ CfgAcquire
    \/ CfgWriteThreshold
    \/ CfgWriteInterval
    \/ CfgRelease
    \/ CfgReadThreshold
    \/ CfgReadInterval
    \/ HttpGet
    \/ HttpGetInterval
    \/ HttpRespond
    \/ \E t \in {"reader", "summary", "http"} : BcastAcquire(t)
    \/ \E t \in {"reader", "summary", "http"} : BcastRelease(t)

Spec == Init /\ [][Next]_vars

\* ------------------------------------------------------- the fan-out alone
\* Where each caller of broadcast_event rests between two calls.
HomePc(t) ==
    CASE t = "reader" -> "recv"
      [] t = "summary" -> "loop"
      [] t = "http" -> "idle"
      [] OTHER -> "off"

\* The feed carries blocks only, so that no window is ever non-empty and the
\* summary loop stays silent: the reader publishes block events and the
\* /config endpoint config events.
Publishers == {"reader", "http"}

\* The event type each caller publishes outside self._lock.
TypeOf(t) == IF t = "reader" THEN "block" ELSE "config"

\* A caller reaches its call of the callback: self.callback("block", ...),
\* self.callback("summary", ...) or broadcast_event("config", ...).  The
\* event carries the rank of its call.
CallbackCall(t) ==
    /\ pc[t] = HomePc(t)
    /\ nPub < MaxPub
    /\ nPub' = nPub + 1
    /\ pubEv' = [pubEv EXCEPT ![t] = [type |-> TypeOf(t), id |-> nPub + 1]]
    /\ pc' = [pc EXCEPT ![t] = "cb"]
    /\ ret' = [ret EXCEPT ![t] = HomePc(t)]
    /\ UNCHANGED <<aggVars, localVars, client_lock, client_queues, queues, pubIdx,
                   clients, nIn, nLife, histVars, auditVars, bootVars>>

\* stream.gen: q = queue.Queue(maxsize=100); with client_lock:
\* client_queues.append(q)                          (app.py lines 50-52)
\* Queues are numbered in the order their clients connect.
Register(q) ==
    /\ clients[q] = "new"
    /\ \A r \in QueueIds : r < q => clients[r] # "new"
    /\ CanAcquire(client_lock)
    /\ client_queues' = Append(client_queues, q)
    /\ clients' = [clients EXCEPT ![q] = "live"]
    /\ UNCHANGED <<aggVars, pc, ret, localVars, client_lock, queues, pubEv, pubIdx,
                   countVars, histVars, auditVars, bootVars>>

\* stream.gen: q.get(timeout=1.0) returns the oldest event, which is sent
\* to the client                                    (app.py lines 58-64)
Consume(q) ==
    /\ clients[q] = "live"
    /\ queues[q] # <<>>
    /\ queues' = [queues EXCEPT ![q] = Tail(@)]
    /\ g_last' = IF Ranked(Head(queues[q]))
                  THEN [g_last EXCEPT ![q] = Head(queues[q]).id]
                  ELSE g_last
    /\ UNCHANGED <<aggVars, pc, ret, localVars, client_lock, client_queues, pubEv,
                   pubIdx, clients, countVars, histVars, audit, g_order, g_msg,
                   g_all, g_pubcfg, bootVars>>

\* Mutant of RemoveQueue: nothing is removed.
RemoveQueueKeeps(list, q) == list

\* try: client_queues.remove(q) except ValueError: pass -- the first
\* occurrence of q is removed, and a list without q is left as it is
RECURSIVE RemoveQueue(_, _)
RemoveQueue(list, q) ==
    IF list = <<>> THEN <<>>
    ELSE IF Head(list) = q THEN Tail(list)
    ELSE <<Head(list)>> \o RemoveQueue(Tail(list), q)

\* stream.gen, finally: with client_lock: client_queues.remove(q); the
\* generator ends and its queue is dropped with it   (app.py lines 65-71)
Deregister(q) ==
    /\ clients[q] = "live"
    /\ CanAcquire(client_lock)
    /\ client_queues' = RemoveQueue(client_queues, q)
    /\ clients' = [clients EXCEPT ![q] = "gone"]
    /\ queues' = [queues EXCEPT ![q] = <<>>]
    /\ g_last' = [g_last EXCEPT ![q] = 0]
    /\ UNCHANGED <<aggVars, pc, ret, localVars, client_lock, pubEv, pubIdx,
                   countVars, histVars, audit, g_order, g_msg, g_all, g_pubcfg,
                   bootVars>>

NextBus ==
    \/ \E t \in Publishers : CallbackCall(t)
    \/ \E t \in Publishers : BcastAcquire(t)
    \/ \E t \in Publishers : BcastPut(t)
    \/ \E t \in Publishers : BcastRelease(t)
    \/ \E q \in QueueIds : Register(q)
    \/ \E q \in QueueIds : Consume(q)
    \/ \E q \in QueueIds : Deregister(q)

\* The fan-out does not read the threshold: one initial value is enough.
InitBus == Init /\ threshold_btc = 1

SpecBus == InitBus /\ [][NextBus]_vars

\* Every thread that can take a step of broadcast_event goes on to take it.
FairBus ==
    \A t \in Publishers :
        WF_vars(BcastAcquire(t)) /\ WF_vars(BcastPut(t)) /\ WF_vars(BcastRelease(t))

FairSpecBus == SpecBus /\ FairBus

\* ------------------------------------------------ the background loops
\* Prices (USD per BTC) the quote service may answer with.
Prices == {1}

\* What one call of _fetch_price meets: a transport error
\* (requests.RequestException), a status other than 200, a body with a
\* numeric bitcoin.usd, or a 200 body without one.
FetchOutcomes == {"transport", "status", "price", "nousd"}

\* _fetch_price: the returned Optional[float]; for a 200 body without
\* bitcoin.usd, float(None) raises TypeError, which is not caught.
FetchRaises(o) == o = "nousd"
FetchResult(o, p) == IF o = "price" THEN Some(p) ELSE None

\* stop(): self._stop_event.set()                          (line 273)
Stop ==
    /\ ~stop_event
    /\ stop_event' = TRUE
    /\ UNCHANGED <<threshold_btc, summary_interval, lock, stats, price_usd,
                   pc, ret, localVars, busVars, countVars, histVars, auditVars, bootVars>>

\* Mutant of RunWsCheck: the loop gives up after two connection attempts.
RunWsCheckGivesUp ==
    /\ pc["reader"] = "ws_loop"
    /\ pc' = [pc EXCEPT !["reader"] =
                IF stop_event \/ g_conn >= 2 THEN "exited" ELSE "connect"]
    /\ UNCHANGED <<aggVars, ret, localVars, busVars, countVars, histVars, auditVars, bootVars>>

\* _run_ws: while not self._stop_event.is_set():           (line 246)
RunWsCheck ==
    /\ pc["reader"] = "ws_loop"
    /\ pc' = [pc EXCEPT !["reader"] = IF stop_event THEN "exited" ELSE "connect"]
    /\ UNCHANGED <<aggVars, ret, localVars, busVars, countVars, histVars, auditVars, bootVars>>

\* WebSocketApp(...); ws.run_forever(...): the connection is made, and
\* _on_open subscribes, or the attempt fails (run_forever returns or raises,
\* and `except Exception: pass`)                       (lines 247-258)
\* (an attempt always ends one way or the other; it stops counting as an
\* input of the run once the stop signal is set)
Connect ==
    /\ pc["reader"] = "connect"
    /\ nLife < MaxLifeInputs \/ stop_event
    /\ nLife' = IF nLife < MaxLifeInputs THEN nLife + 1 ELSE nLife
    /\ g_conn' = IF nLife < MaxLifeInputs THEN g_conn + 1 ELSE g_conn
    /\ \E ok \in BOOLEAN :
        pc' = [pc EXCEPT !["reader"] = IF ok THEN "recv" ELSE "backoff"]
    /\ UNCHANGED <<aggVars, ret, localVars, busVars, nIn, nPub, g_win, g_snap,
                   g_cur, g_cfg, g_out, auditVars, bootVars>>

\* run_forever ends while the reader waits for a message: a connection or
\* protocol error, a ping timeout, a close by the peer   (lines 256-258)
ConnEnd ==
    /\ pc["reader"] = "recv"
    /\ g_conn > 0
    /\ pc' = [pc EXCEPT !["reader"] = "backoff"]
    /\ UNCHANGED <<aggVars, ret, localVars, busVars, countVars, histVars, auditVars, bootVars>>

\* time.sleep(5)                                           (line 260)
Backoff ==
    /\ pc["reader"] = "backoff"
    /\ pc' = [pc EXCEPT !["reader"] = "ws_loop"]
    /\ UNCHANGED <<aggVars, ret, localVars, busVars, countVars, histVars, auditVars, bootVars>>

\* _price_loop: while not self._stop_event.is_set():        (line 96)
PriceCheck ==
    /\ pc["price"] = "p_loop"
    /\ pc' = [pc EXCEPT !["price"] = IF stop_event THEN "exited" ELSE "fetch"]
    /\ UNCHANGED <<aggVars, ret, localVars, busVars, countVars, histVars, auditVars, bootVars>>

\* price = self._fetch_price(); if price is not None: self._price_usd = price
\*                                                      (lines 97-99)
PriceFetch ==
    /\ pc["price"] = "fetch"
    /\ nLife < MaxLifeInputs \/ stop_event
    /\ nLife' = IF nLife < MaxLifeInputs THEN nLife + 1 ELSE nLife
    /\ \E o \in FetchOutcomes, p \in Prices :
        IF FetchRaises(o)
        THEN /\ pc' = [pc EXCEPT !["price"] = "crashed"]
             /\ UNCHANGED price_usd
        ELSE /\ pc' = [pc EXCEPT !["price"] = "p_sleep"]
             /\ price_usd' = IF FetchResult(o, p) # None
                             THEN FetchResult(o, p) ELSE price_usd
    /\ UNCHANGED <<threshold_btc, summary_interval, lock, stats, stop_event,
                   ret, localVars, busVars, nIn, nPub, histVars, auditVars, bootVars>>

\* time.sleep(60)                                          (line 100)
PriceSleep ==
    /\ pc["price"] = "p_sleep"
    /\ pc' = [pc EXCEPT !["price"] = "p_loop"]
    /\ UNCHANGED <<aggVars, ret, localVars, busVars, countVars, histVars, auditVars, bootVars>>

\* A feed that carries no transaction: blocks, other operations and
\* undecodable frames.
QuietFeed == {m \in Messages : m.op # "utx"}

\* start(): the three threads are at the head of their loops (lines 262-269)
InitLife ==
    /\ InitCommon
    /\ Booted
    /\ audit = FALSE
    /\ threshold_btc = 1
    /\ pc = [t \in Threads |->
               CASE t = "reader" -> "ws_loop"
                 [] t = "summary" -> "loop"
                 [] t = "price" -> "p_loop"
                 [] OTHER -> "idle"]

NextLife ==
    \/ Stop
    \/ RunWsCheck
    \/ Connect
    \/ ConnEnd
    \/ Backoff
    \/ ReaderOnMessageFrom(QuietFeed)
    \/ SumCheckStop
    \/ SumSleep
    \/ SumAcquire
    \/ SumSnapshot
    \/ SumRelease
    \/ SumEmit
    \/ PriceCheck
    \/ PriceFetch
    \/ PriceSleep
    \/ BcastAcquire("reader")
    \/ BcastRelease("reader")

\* The three loops and stop(), on a feed without transactions (the window
\* stays empty and the summary loop publishes nothing).
SpecLife == InitLife /\ [][NextLife]_vars

\* Every step of the program's own threads is taken when it stays possible:
\* a running thread goes on, a sleep ends, a connection attempt and a price
\* fetch end one way or the other.  What the feed does (a message arrives,
\* the connection ends) and the call of stop() are not the program's to
\* schedule.
FairLife ==
    /\ WF_vars(RunWsCheck) /\ WF_vars(Connect) /\ WF_vars(Backoff)
    /\ WF_vars(SumCheckStop) /\ WF_vars(SumSleep) /\ WF_vars(SumAcquire)
    /\ WF_vars(SumSnapshot) /\ WF_vars(SumRelease) /\ WF_vars(SumEmit)
    /\ WF_vars(PriceCheck) /\ WF_vars(PriceFetch) /\ WF_vars(PriceSleep)
    /\ WF_vars(BcastAcquire("reader")) /\ WF_vars(BcastRelease("reader"))

FairSpecLife == SpecLife /\ FairLife

\* ------------------------------------------------------ ingestion alone
\* Every kind of inbound frame: those of Messages, a record with a negative
\* output value, and a JSON object without "op".
IngestFeed ==
    Messages
    \cup {[ok |-> TRUE, op |-> "utx", x |-> NegTx]}
    \cup {[ok |-> TRUE, op |-> "none", x |-> NoTx]}

\* The reader and the summary loop, with no request to /config; the history
\* of the messages and of the snapshots is recorded.
InitIngest ==
    /\ InitCommon
    /\ Booted
    /\ audit = TRUE
    /\ pc = [t \in Threads |->
               CASE t = "reader" -> "recv"
                 [] t = "summary" -> "loop"
                 [] OTHER -> "off"]

NextIngest ==
    \/ ReaderOnMessageFrom(IngestFeed)
    \/ ReaderAcquire
    \/ ReaderIncCount
    \/ ReaderAddTotal
    \/ ReaderClassify
    \/ ReaderRelease
    \/ SumCheckStop
    \/ SumSleep
    \/ SumAcquire
    \/ SumSnapshot
    \/ SumRelease
    \/ SumEmit
    \/ \E t \in {"reader", "summary"} : BcastAcquire(t)
    \/ \E t \in {"reader", "summary"} : BcastRelease(t)

SpecIngest == InitIngest /\ [][NextIngest]_vars

\* ------------------------------------------- aggregator and fan-out together
\* The callers of broadcast_event in the running server.
Callers == {"reader", "summary", "http"}

\* A feed of whales and blocks: the reader publishes under self._lock and
\* outside it.
BusyFeed == {m \in Messages : m.op = "block" \/ (m.op = "utx" /\ m.x.hash = "t4")}

\* One client of /stream is enough to have client_lock contended.
OneClient == {1}

InitAll == Init /\ threshold_btc = 1

\* Reader, summary loop and /config as in Next, with clients of /stream
\* coming and going.
NextAll ==
    \/ ReaderOnMessageFrom(BusyFeed)
    \/ ReaderAcquire
    \/ ReaderIncCount
    \/ ReaderAddTotal
    \/ ReaderClassify
    \/ ReaderRelease
    \/ SumCheckStop
    \/ SumSleep
    \/ SumAcquire
    \/ SumSnapshot
    \/ SumRelease
    \/ SumEmit
    \/ HttpPost
    \/ CfgAcquire
    \/ CfgWriteThreshold
    \/ CfgWriteInterval
    \/ CfgRelease
    \/ CfgReadThreshold
    \/ CfgReadInterval
    \/ HttpGet
    \/ HttpGetInterval
    \/ HttpRespond
    \/ \E t \in Callers : BcastAcquire(t)
    \/ \E t \in Callers : BcastPut(t)
    \/ \E t \in Callers : BcastRelease(t)
    \/ \E q \in OneClient : Register(q)
    \/ \E q \in OneClient : Consume(q)
    \/ \E q \in OneClient : Deregister(q)

SpecAll == InitAll /\ [][NextAll]_vars

\* ------------------------------------------------- two requests to /config
\* POST /config served by another worker thread of the threaded server,
\* whose steps happen to run without interruption while both locks are free:
\* update_config, the two reads, and broadcast_event of the config event
\* (no client is connected, so the loop body does not run).
OtherPost ==
    /\ nIn < MaxInputs
    /\ CanAcquire(lock)
    /\ CanAcquire(client_lock)
    /\ nIn' = nIn + 1
    /\ \E rt \in RawParams(Thresholds), ri \in RawParams(Intervals) :
        /\ threshold_btc' = ApplyParam(threshold_btc, ToNumber(rt))
        /\ summary_interval' = ApplyParam(summary_interval, ToNumber(ri))
    /\ g_pubcfg' = IF audit
                    THEN Some(<<ConfigEvent(threshold_btc', summary_interval').threshold,
                                ConfigEvent(threshold_btc', summary_interval').interval>>)
                    ELSE g_pubcfg
    /\ UNCHANGED <<lock, stats, price_usd, stop_event, pc, ret, localVars, busVars,
                   nPub, nLife, histVars, audit, g_order, g_last, g_msg, g_all,
                   bootVars>>

\* The /config endpoint alone: no feed, the summary loop not modelled.
InitCfg ==
    /\ InitCommon
    /\ Booted
    /\ audit = TRUE
    /\ pc = [t \in Threads |-> IF t = "http" THEN "idle" ELSE "off"]

NextCfg ==
    \/ HttpPost
    \/ CfgAcquire
    \/ CfgWriteThreshold
    \/ CfgWriteInterval
    \/ CfgRelease
    \/ CfgReadThreshold
    \/ CfgReadInterval
    \/ HttpRespond
    \/ BcastAcquire("http")
    \/ BcastRelease("http")
    \/ OtherPost

SpecCfg == InitCfg /\ [][NextCfg]_vars

\* ------------------------------------------------------ loading app.py
\* How app.py comes to run: imported by a WSGI server (__name__ is "app"),
\* or run as a script (__name__ is "__main__").
Entries == {"wsgi", "script"}

\* WhaleWatch.start(): the three threads are started  (core lines 262-269)
\* The threads of the model are those of the first instance started; the
\* threads of a further instance are counted in `started` only.
StartThreads(n) ==
    IF n = 0
    THEN [pc EXCEPT !["reader"] = "ws_loop", !["summary"] = "loop",
                    !["price"] = "p_loop"]
    ELSE pc

\* with app.app_context(): initialize_watcher() -- `if watcher is None:
\* watcher = start_watcher()`                      (app.py lines 180-187)
InitializeWatcher ==
    /\ boot = "load"
    /\ IF watcher = None
       THEN /\ watcher' = Some(started + 1)
            /\ started' = started + 1
            /\ pc' = StartThreads(started)
       ELSE UNCHANGED <<watcher, started, pc>>
    /\ boot' = "guard"
    /\ UNCHANGED <<aggVars, ret, localVars, busVars, countVars, histVars,
                   auditVars, entry>>

\* if __name__ == "__main__":                          (app.py line 189)
MainGuard ==
    /\ boot = "guard"
    /\ boot' = IF entry = "script" THEN "main" ELSE "serving"
    /\ UNCHANGED <<aggVars, pc, ret, localVars, busVars, countVars, histVars,
                   auditVars, entry, watcher, started>>

\* watcher = start_watcher(), then app.run(...)    (app.py lines 192-195)
MainStart ==
    /\ boot = "main"
    /\ watcher' = Some(started + 1)
    /\ started' = started + 1
    /\ pc' = StartThreads(started)
    /\ boot' = "serving"
    /\ UNCHANGED <<aggVars, ret, localVars, busVars, countVars, histVars,
                   auditVars, entry>>

\* The process before app.py is loaded: no instance, no thread.
InitStart ==
    /\ InitCommon
    /\ audit = FALSE
    /\ entry \in Entries
    /\ boot = "load"
    /\ watcher = None
    /\ started = 0
    /\ pc = [t \in Threads |-> "off"]

\* The load of app.py, and the three loops of the instance it starts, on a
\* feed without transactions.  stop() is not called on that instance: the
\* WSGI server never calls it, and the script calls it on the instance the
\* global `watcher` names when app.run returns.
NextStart ==
    \/ InitializeWatcher
    \/ MainGuard
    \/ MainStart
    \/ RunWsCheck
    \/ Connect
    \/ ConnEnd
    \/ Backoff
    \/ ReaderOnMessageFrom(QuietFeed)
    \/ SumCheckStop
    \/ SumSleep
    \/ SumAcquire
    \/ SumSnapshot
    \/ SumRelease
    \/ SumEmit
    \/ PriceCheck
    \/ PriceFetch
    \/ PriceSleep
    \/ BcastAcquire("reader")
    \/ BcastRelease("reader")

SpecStart == InitStart /\ [][NextStart]_vars

\* ================================================================ claims
\* The reader is between taking self._lock in _handle_unconfirmed_tx and
\* giving it back.
ReaderInHandler ==
    \/ pc["reader"] \in {"cnt", "tot", "cmp", "unlock"}
    \/ pc["reader"] \in {"cb", "put"} /\ ret["reader"] = "unlock"

\* The summary loop is calling the callback with a summary event.
SummaryEmitting == pc["summary"] \in {"cb", "put"}

\* C1 as stated: the count of every emitted SummaryEvent is the number of
\* transactions of its window that have at least one parseable output value,
\* and its total is the exact sum of their parsed output values.
C1_CountOfParseable ==
    SummaryEmitting =>
        /\ pubEv["summary"].count = g_snap.par
        /\ pubEv["summary"].total_sat = g_snap.sum

\* C1 amended: the count of every emitted SummaryEvent is the number of ALL
\* transactions ingested in its window, with or without a parseable output
\* value, and its total is the exact sum of their parsed output values.
C1_CountOfIngested ==
    SummaryEmitting =>
        /\ pubEv["summary"].count = g_snap.n
        /\ pubEv["summary"].total_sat = g_snap.sum

\* C1 witness: a summary is emitted for a window of two transactions or
\* more, one of them with no parseable output, and a positive total.
C1_Witness ==
    /\ SummaryEmitting
    /\ g_snap.n >= 2
    /\ g_snap.par < g_snap.n
    /\ g_snap.sum > 0

C3_ThresholdNotRetroactive ==
    /\ [][threshold_btc' # threshold_btc =>
            /\ stats' = stats
            /\ g_win' = g_win
            /\ g_cur' = g_cur
            /\ pubEv' = pubEv]_vars
    /\ [](ReaderInHandler => threshold_btc = g_cur.thr0)

\* C3 witness: update_config has changed the threshold while the window
\* holds a whale, and a transaction waits to be classified.
C3_Witness ==
    /\ pc["http"] = "wi"
    /\ threshold_btc # g_cfg.thr
    /\ stats.whale >= 1
    /\ pc["reader"] = "lock"

\* C4: whenever the summary loop calls the callback, the count it snapshotted
\* and the count of the event are not zero.
C4_NoEmptySummary ==
    SummaryEmitting =>
        /\ snap.count # 0
        /\ pubEv["summary"].type = "summary"
        /\ pubEv["summary"].count # 0

\* C4 witness: a cycle has snapshotted an empty window and gone back to the
\* head of the loop without calling the callback.
C4_Witness ==
    /\ pc["summary"] = "loop"
    /\ slept # None
    /\ snap.count = 0
    /\ nIn >= 2

\* C5: when update_config has done its writes, a field whose parameter was
\* not supplied has the value update_config found, a field whose parameter
\* was supplied has that value, and no step of update_config changes the
\* window.
C5_PartialUpdateFrame ==
    /\ [](pc["http"] = "unlock" =>
            /\ threshold_btc = (IF args[1] = None THEN g_cfg.thr ELSE Val(args[1]))
            /\ summary_interval = (IF args[2] = None THEN g_cfg.itv ELSE Val(args[2])))
    /\ [][pc["http"] \in {"lock", "wt", "wi", "unlock"} /\ pc'["http"] # pc["http"]
            => stats' = stats]_vars

\* C5 witness: update_config(None, interval) has changed the interval of a
\* window that holds transactions.
C5_Witness ==
    /\ pc["http"] = "unlock"
    /\ args[1] = None
    /\ args[2] # None
    /\ summary_interval # g_cfg.itv
    /\ stats.count >= 1

\* C7: in the state right after a snapshot, no transaction handler is between
\* its first update and its release, and the snapshot is that of whole
\* handlers: its count, total and whale count are those of the transactions
\* handled to the end, and every whale among them has had its event emitted.
C7_SnapshotSeesWholeHandlers ==
    pc["summary"] = "unlock" =>
        /\ ~ReaderInHandler
        /\ snap.count = g_snap.n
        /\ snap.total = g_snap.sum
        /\ snap.whale = g_snap.whales
        /\ snap.whale = g_snap.wev

\* C7 witness: a snapshot holding a whale has been taken while the reader
\* waits for the lock with the next transaction.
C7_Witness ==
    /\ pc["summary"] = "unlock"
    /\ snap.whale >= 1
    /\ pc["reader"] = "lock"

\* C10 as stated: a thread positioned at a statement that reads or writes a
\* window field, the threshold or the interval holds self._lock.
AccessPcs(t) ==
    CASE t = "reader" -> {"cnt", "tot", "cmp"}
      [] t = "summary" -> {"sleep", "snap"}
      [] t = "http" -> {"wt", "wi", "rd1", "rd2", "get2"}
      [] OTHER -> {}
C10_AllAccessUnderLock ==
    \A t \in Threads : pc[t] \in AccessPcs(t) => lock = t

\* A broadcast has run through client_queues and is about to return.
LoopDone(t) == pc[t] = "put" /\ pubIdx[t] > Len(client_queues)

\* C6: in every broadcast, each put so far has enqueued the event exactly
\* when the queue had room; a broadcast that has finished its loop has
\* served every registered queue, in order; a broadcast inside its loop can
\* always take its next step; and every call of broadcast_event returns.
C6_FullQueueDropsOnlyThere ==
    /\ [](\A t \in Publishers :
            /\ \A i \in 1..Len(g_out[t]) : g_out[t][i].got <=> ~g_out[t][i].full
            /\ LoopDone(t) => [i \in 1..Len(g_out[t]) |-> g_out[t][i].q] = client_queues
            /\ pc[t] = "put" => ENABLED (BcastPut(t) \/ BcastRelease(t)))
    /\ \A t \in Publishers : (pc[t] \in {"cb", "put"}) ~> (pc[t] = HomePc(t))

\* C6 witness: a broadcast is about to return that found a full queue, where
\* it dropped the event, and after it a queue with room, which got the event.
C6_Witness ==
    \E t \in Publishers :
        /\ LoopDone(t)
        /\ \E i, j \in 1..Len(g_out[t]) :
            /\ i < j
            /\ g_out[t][i].full /\ ~g_out[t][i].got
            /\ ~g_out[t][j].full /\ g_out[t][j].got

\* A background loop has left its `while`: its condition was found false, or
\* an exception ended the thread.
Exited(t) == pc[t] \in {"exited", "crashed"}

\* C8 as stated: once the stop signal is set, the price loop, the summary
\* loop and the stream loop each eventually exit.
C8_StopEndsAllLoops ==
    \A t \in {"price", "summary", "reader"} : stop_event ~> Exited(t)

\* C9: the stream loop exits only when the stop signal is set; a connection
\* attempt or an open connection ends only into the backoff sleep, and the
\* backoff sleep only into the head of the loop; and, the stop signal not
\* set, a backoff is always followed by a new connection attempt.
C9_ReconnectsUntilStopped ==
    /\ [](pc["reader"] = "exited" => stop_event)
    /\ [][pc["reader"] \in {"connect", "recv"}
            /\ pc'["reader"] \notin {"connect", "recv", "cb", "put"}
            => pc'["reader"] = "backoff"]_vars
    /\ [][pc["reader"] = "backoff" /\ pc'["reader"] # "backoff"
            => pc'["reader"] = "ws_loop"]_vars
    /\ (pc["reader"] = "backoff" /\ ~stop_event)
            ~> (pc["reader"] = "connect" \/ stop_event)

\* C9 witness: every connection attempt the run allows has been made and has
\* ended, and with the stop signal not set the loop is connecting again.
C9_Witness ==
    /\ pc["reader"] = "connect"
    /\ g_conn = MaxLifeInputs
    /\ g_conn >= 3
    /\ ~stop_event

\* The place of a ranked event in the order in which the broadcasts took
\* client_lock.
Pos(id) == CHOOSE i \in 1..Len(g_order) : g_order[i].id = id

\* C11: publishes are performed one at a time, in the order in which they
\* take client_lock, which for the calls of one thread is the order of the
\* calls; every queue holds its events in that order, the event a client
\* dequeued last precedes those still in its queue, and two events that are
\* in two queues are in the same order in both.
C11_QueueInPublishOrder ==
    /\ \A i, j \in 1..Len(g_order) :
            i < j /\ g_order[i].by = g_order[j].by => g_order[i].id < g_order[j].id
    /\ \A q \in QueueIds :
        /\ \A i, j \in 1..Len(queues[q]) :
                i < j => Pos(queues[q][i].id) < Pos(queues[q][j].id)
        /\ g_last[q] # 0 /\ queues[q] # <<>> =>
                Pos(g_last[q]) < Pos(Head(queues[q]).id)
    /\ \A q, r \in QueueIds :
        \A i, j \in 1..Len(queues[q]), k, l \in 1..Len(queues[r]) :
            queues[q][i] = queues[r][k] /\ queues[q][j] = queues[r][l]
                => (i < j <=> k < l)

\* C11 witness: two threads published concurrently and the later call took
\* client_lock first; two clients hold both events, and one of them has
\* already dequeued an earlier event.
C11_Witness ==
    \E q, r \in QueueIds :
        /\ q # r
        /\ Len(queues[q]) = 2 /\ Len(queues[r]) = 2
        /\ queues[q][1].id > queues[q][2].id
        /\ queues[r] = queues[q]
        /\ g_last[q] # 0

\* The sum of the output values of a record that are non-negative integers.
RECURSIVE NonNegSum(_)
NonNegSum(outs) ==
    IF outs = <<>> THEN 0
    ELSE (IF Head(outs).k = "int" /\ Head(outs).v >= 0 THEN Head(outs).v ELSE 0)
         + NonNegSum(Tail(outs))

\* C12 as stated: the total the handler computes for a transaction is the
\* sum of the output values that parse as non-negative integers, every other
\* output contributing nothing; and the transaction is counted.
C12_OnlyNonNegativeValuesSummed ==
    /\ pc["reader"] \in {"lock", "cnt", "tot", "cmp", "unlock"} =>
            total_sat = NonNegSum(tx.out)
    /\ pc["reader"] = "unlock" => stats.count >= 1

\* The reader is back at the read of the next message.
ReaderIdle == pc["reader"] = "recv"

C15_BlockEmitsAndAggregatesNothing ==
    /\ [](g_msg.kind = "block" =>
            /\ ReaderIdle => g_msg.blocks = 1 /\ g_msg.txs = 0
            /\ ~ReaderIdle => pubEv["reader"] = BlockEvent /\ g_msg.blocks = 0)
    /\ [][g_msg'.kind = "block" /\ pc'["reader"] # pc["reader"] =>
            UNCHANGED <<stats, threshold_btc, summary_interval, g_win, g_all>>]_vars
    /\ [](SummaryEmitting => pubEv["summary"].count = g_snap.n)

\* C15 witness: the callback has returned from the block event of a block
\* message that came while the window held a transaction.
C15_Witness ==
    /\ ReaderIdle
    /\ g_msg.kind = "block"
    /\ g_msg.blocks = 1
    /\ stats.count >= 1

\* C16: whenever no transaction handler holds self._lock, the counts, the
\* values and the whale counts of all the snapshots taken so far (empty ones
\* included) plus those of the current window are those of all the
\* transactions handled so far.
C16_EveryTransactionInOneSnapshot ==
    lock # "reader" =>
        /\ g_all.snaps.n + stats.count = g_all.done.n
        /\ g_all.snaps.sum + stats.total = g_all.done.sum
        /\ g_all.snaps.whales + stats.whale = g_all.done.whales

\* C16 witness: two snapshots have been taken, one of them empty, the
\* snapshots hold a whale, and the window holds a transaction again.
C16_Witness ==
    /\ lock # "reader"
    /\ g_all.cycles >= 2
    /\ g_all.snaps.n = 1
    /\ g_all.snaps.whales = 1
    /\ stats.count = 1

\* C14 as stated: no outcome of a price fetch ends the price loop; the loop
\* is at its test, at a fetch or in its sleep until the stop signal makes
\* it exit, and a fetch that gives no price leaves the cached price as it
\* was.
C14_PriceFailureNeverFatal ==
    \/ pc["price"] \in {"p_loop", "fetch", "p_sleep"}
    \/ pc["price"] = "exited" /\ stop_event

\* The queues of the live subscriber set.
InSet(q) == \E i \in 1..Len(client_queues) : client_queues[i] = q

\* C18: a queue is in client_queues, once, exactly while its client is
\* between registration and deregistration; client_queues changes only
\* while no broadcast holds client_lock; a broadcast in its loop has served
\* the queues of the set so far in order, each put having enqueued the
\* event or found the queue full; the queue of a client that is not
\* registered holds nothing; removing a queue that is not in the set leaves
\* the set as it is; and no queue holds more than its capacity.
C18_SubscriberLifecycle ==
    /\ [](\A q \in QueueIds :
            /\ clients[q] = "live" <=> InSet(q)
            /\ Cardinality({i \in 1..Len(client_queues) : client_queues[i] = q}) <= 1
            /\ clients[q] # "live" => queues[q] = <<>>
            /\ ~InSet(q) => RemoveQueue(client_queues, q) = client_queues
            /\ Len(queues[q]) <= QueueCap)
    /\ [](\A t \in Publishers :
            pc[t] = "put" =>
                /\ Len(g_out[t]) = pubIdx[t] - 1
                /\ \A i \in 1..Len(g_out[t]) :
                    /\ g_out[t][i].q = client_queues[i]
                    /\ g_out[t][i].got \/ g_out[t][i].full)
    /\ [][client_queues' # client_queues =>
            client_lock = Nobody /\ client_lock' = Nobody]_vars

\* C18 witness: one client has registered and deregistered; a broadcast
\* made after that is about to return, having served the one queue left in
\* the set, which was full.
C18_Witness ==
    \E q, r \in QueueIds, t \in Publishers :
        /\ clients[q] = "gone"
        /\ client_queues = <<r>>
        /\ LoopDone(t)
        /\ Len(g_out[t]) = 1
        /\ g_out[t][1].full
        /\ Len(queues[r]) = QueueCap

\* A thread waits for self._lock, or for client_lock, while another holds it.
WaitsForLock(t) == pc[t] = "lock" /\ lock # Nobody
WaitsForClientLock(t) == pc[t] = "cb" /\ client_lock # Nobody
Blocked(t) == WaitsForLock(t) \/ WaitsForClientLock(t)

\* The thread that holds the lock a blocked thread waits for.
HolderFor(t) == IF pc[t] = "lock" THEN lock ELSE client_lock

\* The next step of a thread that holds a lock or is about to take one.
StepOf(t) ==
    \/ BcastAcquire(t) \/ BcastPut(t) \/ BcastRelease(t)
    \/ t = "reader" /\ (ReaderAcquire \/ ReaderIncCount \/ ReaderAddTotal
                          \/ ReaderClassify \/ ReaderRelease)
    \/ t = "summary" /\ (SumAcquire \/ SumSnapshot \/ SumRelease)
    \/ t = "http" /\ (CfgAcquire \/ CfgWriteThreshold \/ CfgWriteInterval
                        \/ CfgRelease)

\* C17: the two locks are taken in one order, self._lock then client_lock:
\* a thread that holds client_lock is inside broadcast_event's loop and
\* waits for nothing, and a thread that waits for self._lock holds no lock.
\* So every blocked thread waits for a thread that can take a step, or for
\* one that waits for such a thread; every thread that holds a lock, or
\* wants a free one, can take its next step; and a client can register or
\* deregister whenever client_lock is free.
C17_OneLockOrderNoDeadlock ==
    \A t \in Callers :
        /\ client_lock = t => pc[t] = "put"
        /\ pc[t] = "lock" => lock # t /\ client_lock # t
        /\ lock = t => pc[t] # "lock"
        /\ Blocked(t) =>
                \/ ~Blocked(HolderFor(t))
                \/ ~Blocked(HolderFor(HolderFor(t)))
        /\ (lock = t \/ client_lock = t \/ pc[t] \in {"lock", "cb"}) /\ ~Blocked(t)
                => ENABLED StepOf(t)
        /\ client_lock = Nobody =>
                \A q \in OneClient :
                    /\ clients[q] = "new" => ENABLED Register(q)
                    /\ clients[q] = "live" => ENABLED Deregister(q)

\* C17 witness: the reader holds self._lock and waits for client_lock to
\* publish a whale, the /config endpoint holds client_lock and is putting
\* its event into a client's queue, and the summary loop waits for
\* self._lock.
C17_Witness ==
    /\ lock = "reader"
    /\ WaitsForClientLock("reader")
    /\ pubEv["reader"].type = "whale"
    /\ client_lock = "http"
    /\ client_queues # <<>>
    /\ WaitsForLock("summary")

\* C19 as stated: when no request to /config is in progress, the payload of
\* the last config event published is the threshold and the interval in
\* effect; and the values a POST is about to return are those that were in
\* effect right after its own update: each field the supplied value, or
\* else the value update_config found.
C19_ConfigEventMirrorsConfig ==
    /\ pc["http"] = "idle" /\ g_pubcfg # None =>
            Val(g_pubcfg) = <<threshold_btc, summary_interval>>
    /\ pc["http"] = "resp" /\ g_cfg # NoCfg =>
            /\ eff[1] = Some(IF args[1] = None THEN g_cfg.thr ELSE Val(args[1]))
            /\ eff[2] = Some(IF args[2] = None THEN g_cfg.itv ELSE Val(args[2]))

\* C20 as stated: on every way of loading app.py, start() is called on at
\* most one WhaleWatch instance, and the instance the global `watcher`
\* names is the only one started.
C20_AtMostOneWatcherStarted ==
    /\ started <= 1
    /\ watcher # None => Val(watcher) = 1

====
